---- MODULE Spec2Model ----
(***************************************************************************)
(* A model of the Nek top-down test harness                                *)
(* (src/UnitTest_Analysis_Dynamic.py) and of the buildbot step that parses *)
(* its summary (src/NekCustomSteps.py).                                    *)
(*                                                                         *)
(* Text is modelled character by character: a Python str is a sequence of  *)
(* one-character strings over the code points U+0000..U+00FF and U+1680,   *)
(* so that `in`, str.split() and float()/int() are computed as Python      *)
(* computes them.  A float is an IEEE 754 binary64 value and an int an     *)
(* unbounded integer, both built on big naturals; float(), subtraction,    *)
(* abs and < round and compare as the interpreter does.                    *)
(*                                                                         *)
(* The harness runs under Python 2 and under Python 3, which differ in     *)
(* dict.keys(), in the characters str.split() cuts at and in the digit     *)
(* groups float()/int() accept; the interpreter is chosen at the start     *)
(* and the operators that depend on it take it as the argument py2.        *)
(***************************************************************************)
EXTENDS Integers, Sequences, FiniteSets, TLC

VARIABLES
    python2,      \* TRUE: the interpreter is Python 2; FALSE: Python 3
    suite,        \* the global TestSuite: one class record per Run/FindPhrase/DFdPhrase call
    phase,        \* "declare" -> "run" -> "done"   (position in __main__)
    cur,          \* index of the class the TestRunner is working on
    out,          \* stdout: the lines printed so far
    stepClass,    \* "NekStepP" or "NekStepS": the step that was constructed
    numPass,      \* NekStep.numPass
    numTotal,     \* NekStep.numTotal
    ciStage,      \* "init" -> "running" -> "finished" | "exception"
    cmdRan,       \* whether buildbot could run the python command
    stdio,        \* the stdout lines the log observer has received
    ciStatus      \* result of evaluateCommand ("none" before)

harnessVars == <<python2, suite, phase, cur, out>>
ciVars == <<stepClass, numPass, numTotal, ciStage, cmdRan, stdio, ciStatus>>
vars == <<python2, suite, phase, cur, out, stepClass, numPass, numTotal, ciStage, cmdRan, stdio, ciStatus>>

\* ---------------------------------------------------------------- bounds
MaxExamples == 2
MaxStdioLines == 2

\* ------------------------------------------------------------ Python str
Digit == {"0", "1", "2", "3", "4", "5", "6", "7", "8", "9"}

DigitVal(c) ==
    CASE c = "0" -> 0 [] c = "1" -> 1 [] c = "2" -> 2 [] c = "3" -> 3 [] c = "4" -> 4
      [] c = "5" -> 5 [] c = "6" -> 6 [] c = "7" -> 7 [] c = "8" -> 8 [] c = "9" -> 9

\* The characters str.split() cuts at.  Python 2 (a str of bytes): space,
\* tab, line feed, carriage return, form feed and vertical tab (U+000B).
AsciiSpace == {" ", "\t", "\n", "\r", "\f", ""}

\* Python 3 (a str of code points) adds the separators U+001C..U+001F, next
\* line (U+0085), no-break space (U+00A0) and ogham space mark (U+1680).  The
\* other Unicode spaces it cuts at (U+2000..U+200A, U+2028, U+2029, U+202F,
\* U+205F, U+3000) cannot be written in a string of this module.
UnicodeSpace == AsciiSpace \cup {"", "", "", "", "", " ", " "}

IsSpace(c, py2) == IF py2 THEN c \in AsciiSpace ELSE c \in UnicodeSpace

\* `sub in s` for two str
Contains(s, sub) ==
    \E i \in 0..(Len(s) - Len(sub)) : SubSeq(s, i + 1, i + Len(sub)) = sub

\* the k-th smallest element of a set of integers
Nth(S, k) == CHOOSE i \in S : Cardinality({j \in S : j <= i}) = k

\* where the maximal runs of non-whitespace characters of s begin and end
TokenStarts(s, py2) ==
    {i \in 1..Len(s) : ~IsSpace(s[i], py2) /\ (i = 1 \/ IsSpace(s[i - 1], py2))}

TokenEnds(s, py2) ==
    {i \in 1..Len(s) : ~IsSpace(s[i], py2) /\ (i = Len(s) \/ IsSpace(s[i + 1], py2))}

\* s.split(): the maximal runs of non-whitespace characters, in order
Split(s, py2) ==
    LET starts == TokenStarts(s, py2)
        ends == TokenEnds(s, py2)
    IN  IF starts = {} THEN <<>>
        ELSE [k \in 1..Cardinality(starts) |-> SubSeq(s, Nth(starts, k), Nth(ends, k))]

\* s.split(sep) for a one-character sep: every occurrence cuts, empty pieces are kept
SplitOn(s, sep) ==
    LET cuts == {i \in 1..Len(s) : s[i] = sep}
        from(k) == IF k = 1 THEN 1 ELSE Nth(cuts, k - 1) + 1
        to(k) == IF k = Cardinality(cuts) + 1 THEN Len(s) ELSE Nth(cuts, k) - 1
    IN  [k \in 1..(Cardinality(cuts) + 1) |-> SubSeq(s, from(k), to(k))]

\* seq[k] with a Python index k (0-based; negative counts from the end).
\* ok = FALSE is IndexError.
PyIndex(seq, k) ==
    IF k >= 0
    THEN IF k < Len(seq) THEN [ok |-> TRUE, val |-> seq[k + 1]]
                         ELSE [ok |-> FALSE, val |-> <<>>]
    ELSE IF -k <= Len(seq) THEN [ok |-> TRUE, val |-> seq[Len(seq) + k + 1]]
                           ELSE [ok |-> FALSE, val |-> <<>>]

\* ------------------------------------------------------- big naturals
\* A natural number of any size is a little-endian sequence of limbs in
\* 0..Base-1 without a leading (last) zero limb; <<>> is 0.  The limb width
\* keeps every intermediate product within the range of the checker's
\* integers, and the operations split their operand in halves so that their
\* nesting grows with the logarithm of its length.
LimbWidth == 15
Base == 2^LimbWidth

Max(a, b) == IF a >= b THEN a ELSE b
Min(a, b) == IF a <= b THEN a ELSE b
MaxOf(S) == CHOOSE i \in S : \A j \in S : j <= i
MinOf(S) == CHOOSE i \in S : \A j \in S : i <= j

Zeros(n) == IF n <= 0 THEN <<>> ELSE [i \in 1..n |-> 0]
Pad(a, n) == a \o Zeros(n - Len(a))

Trim(a) ==
    LET nz == {i \in 1..Len(a) : a[i] # 0}
    IN  IF nz = {} THEN <<>> ELSE SubSeq(a, 1, MaxOf(nz))

\* the limbs and the carry out of a * c + carry, for c and carry below Base
RECURSIVE MulLimbs(_, _, _)
MulLimbs(a, c, carry) ==
    IF Len(a) = 0 THEN [l |-> <<>>, c |-> carry]
    ELSE IF Len(a) = 1
    THEN LET v == a[1] * c + carry
         IN  [l |-> <<v % Base>>, c |-> v \div Base]
    ELSE LET h == Len(a) \div 2
             lo == MulLimbs(SubSeq(a, 1, h), c, carry)
             hi == MulLimbs(SubSeq(a, h + 1, Len(a)), c, lo.c)
         IN  [l |-> lo.l \o hi.l, c |-> hi.c]

MulSmall(a, c, carry) ==
    LET r == MulLimbs(a, c, carry)
    IN  Trim(r.l \o <<r.c>>)

Reverse(s) == [i \in 1..Len(s) |-> s[Len(s) + 1 - i]]

\* the quotient limbs, top limb first, and the remainder of
\* (r * Base^Len(a) + a) by c, for r < c <= Base
RECURSIVE DivLimbs(_, _, _)
DivLimbs(a, c, r) ==
    IF Len(a) = 0 THEN [q |-> <<>>, r |-> r]
    ELSE IF Len(a) = 1
    THEN LET v == r * Base + a[1]
         IN  [q |-> <<v \div c>>, r |-> v % c]
    ELSE LET h == Len(a) \div 2
             hi == DivLimbs(SubSeq(a, h + 1, Len(a)), c, r)
             lo == DivLimbs(SubSeq(a, 1, h), c, hi.r)
         IN  [q |-> hi.q \o lo.q, r |-> lo.r]

DivSmall(a, c) ==
    LET d == DivLimbs(a, c, 0)
    IN  [q |-> Trim(Reverse(d.q)), r |-> d.r]

RECURSIVE LimbBits(_)
LimbBits(x) == IF x = 0 THEN 0 ELSE 1 + LimbBits(x \div 2)

BitLen(a) == IF a = <<>> THEN 0 ELSE LimbWidth * (Len(a) - 1) + LimbBits(a[Len(a)])

IsOdd(a) == a # <<>> /\ a[1] % 2 = 1

\* a * 2^k
ShiftLeft(a, k) ==
    IF a = <<>> THEN <<>>
    ELSE Zeros(k \div LimbWidth) \o MulSmall(a, 2^(k % LimbWidth), 0)

\* floor(a / 2^k), and whether a nonzero bit was shifted out
ShiftRight(a, k) ==
    LET drop == k \div LimbWidth
    IN  IF drop >= Len(a) THEN [q |-> <<>>, sticky |-> a # <<>>]
        ELSE LET d == DivSmall(SubSeq(a, drop + 1, Len(a)), 2^(k % LimbWidth))
             IN  [q |-> d.q,
                  sticky |-> d.r # 0 \/ \E i \in 1..drop : a[i] # 0]

\* the limbs and the carry out of a + b + carry, for a and b of equal length
RECURSIVE AddLimbs(_, _, _)
AddLimbs(a, b, carry) ==
    IF Len(a) = 0 THEN [l |-> <<>>, c |-> carry]
    ELSE IF Len(a) = 1
    THEN LET v == a[1] + b[1] + carry
         IN  [l |-> <<v % Base>>, c |-> v \div Base]
    ELSE LET h == Len(a) \div 2
             lo == AddLimbs(SubSeq(a, 1, h), SubSeq(b, 1, h), carry)
             hi == AddLimbs(SubSeq(a, h + 1, Len(a)), SubSeq(b, h + 1, Len(a)), lo.c)
         IN  [l |-> lo.l \o hi.l, c |-> hi.c]

BigAdd(a, b) ==
    LET n == Max(Len(a), Len(b))
        r == AddLimbs(Pad(a, n), Pad(b, n), 0)
    IN  Trim(r.l \o <<r.c>>)

\* the limbs and the borrow out of a - b - borrow, for a and b of equal length
RECURSIVE SubLimbs(_, _, _)
SubLimbs(a, b, borrow) ==
    IF Len(a) = 0 THEN [l |-> <<>>, c |-> borrow]
    ELSE IF Len(a) = 1
    THEN LET v == a[1] - b[1] - borrow
         IN  [l |-> <<IF v < 0 THEN v + Base ELSE v>>, c |-> IF v < 0 THEN 1 ELSE 0]
    ELSE LET h == Len(a) \div 2
             lo == SubLimbs(SubSeq(a, 1, h), SubSeq(b, 1, h), borrow)
             hi == SubLimbs(SubSeq(a, h + 1, Len(a)), SubSeq(b, h + 1, Len(a)), lo.c)
         IN  [l |-> lo.l \o hi.l, c |-> hi.c]

\* a - b for a >= b
BigSub(a, b) == Trim(SubLimbs(a, Pad(b, Len(a)), 0).l)

\* -1, 0, 1 as a < b, a = b, a > b
BigCmp(a, b) ==
    IF Len(a) < Len(b) THEN -1
    ELSE IF Len(a) > Len(b) THEN 1
    ELSE LET d == {i \in 1..Len(a) : a[i] # b[i]}
         IN  IF d = {} THEN 0
             ELSE IF a[MaxOf(d)] < b[MaxOf(d)] THEN -1 ELSE 1

RECURSIVE BigMul(_, _)
BigMul(a, b) ==
    IF a = <<>> \/ b = <<>> THEN <<>>
    ELSE IF Len(b) = 1 THEN MulSmall(a, b[1], 0)
    ELSE LET h == Len(b) \div 2
         IN  BigAdd(BigMul(a, Trim(SubSeq(b, 1, h))),
                    Zeros(h) \o BigMul(a, SubSeq(b, h + 1, Len(b))))

\* 10^k
RECURSIVE Pow10(_)
Pow10(k) ==
    IF k <= 4 THEN <<10^k>>
    ELSE BigMul(Pow10(k \div 2), Pow10(k - k \div 2))

\* a * 10^k
MulPow10(a, k) == BigMul(a, Pow10(k))

\* floor(a / 10^k), and whether the division left a remainder
RECURSIVE DivPow10(_, _)
DivPow10(a, k) ==
    IF k <= 4
    THEN LET d == DivSmall(a, 10^k)
         IN  [q |-> d.q, sticky |-> d.r # 0]
    ELSE LET first == DivPow10(a, k \div 2)
             rest == DivPow10(first.q, k - k \div 2)
         IN  IF first.sticky THEN [q |-> rest.q, sticky |-> TRUE] ELSE rest

\* ------------------------------------------------------- float (binary64)
\* A float is [kind, sign, m, e]: kind "fin" is sign * m * 2^e with m a big
\* natural that is odd (or 0, then e = 0); kind "inf" and "nan" as in IEEE 754.
Zero(sign) == [kind |-> "fin", sign |-> sign, m |-> <<>>, e |-> 0]
Inf(sign) == [kind |-> "inf", sign |-> sign, m |-> <<>>, e |-> 0]
NaN == [kind |-> "nan", sign |-> 1, m |-> <<>>, e |-> 0]

RECURSIVE TrailingZeros(_)
TrailingZeros(x) == IF x % 2 = 1 THEN 0 ELSE 1 + TrailingZeros(x \div 2)

\* the canonical form of sign * m * 2^e for m > 0: the zero bits at the low
\* end of m move into the exponent
StripZeros(sign, m, e) ==
    LET low == MinOf({i \in 1..Len(m) : m[i] # 0})
        z == LimbWidth * (low - 1) + TrailingZeros(m[low])
    IN  [kind |-> "fin", sign |-> sign, m |-> ShiftRight(m, z).q, e |-> e + z]

\* sign * m * 2^e, a value that fits 53 bits; beyond the largest float it is inf
Canon(sign, m, e) ==
    IF m = <<>> THEN Zero(sign)
    ELSE IF BitLen(m) + e > 1024 THEN Inf(sign)
    ELSE StripZeros(sign, m, e)

\* sign * (Q + f) * 2^e, 0 <= f < 1 with f > 0 iff sticky, rounded to the
\* nearest float, ties to even: 53 bits, exponent of the last bit >= -1074
Round(sign, Q, e, sticky) ==
    LET t == Max(Max(BitLen(Q) - 53, 0), -1074 - e)
    IN  IF t <= 0 THEN Canon(sign, Q, e)
        ELSE LET sh == ShiftRight(Q, t - 1)
                 half == DivSmall(sh.q, 2)
                 up == half.r = 1 /\ (sh.sticky \/ sticky \/ IsOdd(half.q))
             IN  Canon(sign, IF up THEN BigAdd(half.q, <<1>>) ELSE half.q, e + t)

\* sign * N * 10^k10 rounded to the nearest float
FromDecimal(sign, N, k10) ==
    IF N = <<>> THEN Zero(sign)
    ELSE IF k10 >= 0 THEN Round(sign, MulPow10(N, k10), 0, FALSE)
    ELSE LET D == Pow10(-k10)
             s == 54 - (BitLen(N) - BitLen(D))
             num == IF s >= 0 THEN [q |-> ShiftLeft(N, s), sticky |-> FALSE]
                    ELSE ShiftRight(N, -s)
             dv == DivPow10(num.q, -k10)
         IN  Round(sign, dv.q, -s, num.sticky \/ dv.sticky)

\* x - y
FloatSub(x, y) ==
    IF x.kind = "nan" \/ y.kind = "nan" THEN NaN
    ELSE IF x.kind = "inf" THEN (IF y.kind = "inf" /\ y.sign = x.sign THEN NaN ELSE x)
    ELSE IF y.kind = "inf" THEN Inf(-y.sign)
    ELSE LET emin == Min(x.e, y.e)
             X == ShiftLeft(x.m, x.e - emin)
             Y == ShiftLeft(y.m, y.e - emin)
             c == BigCmp(X, Y)
         IN  IF x.sign # y.sign THEN Round(x.sign, BigAdd(X, Y), emin, FALSE)
             ELSE IF c = 0 THEN Zero(1)
             ELSE IF c > 0 THEN Round(x.sign, BigSub(X, Y), emin, FALSE)
             ELSE Round(-x.sign, BigSub(Y, X), emin, FALSE)

\* abs(x)
FloatAbs(x) == [x EXCEPT !.sign = 1]

\* -1, 0, 1: the sign of a finite or infinite x
Signum(x) == IF x.kind = "fin" /\ x.m = <<>> THEN 0 ELSE x.sign

\* x < y
FloatLess(x, y) ==
    IF x.kind = "nan" \/ y.kind = "nan" THEN FALSE
    ELSE IF Signum(x) # Signum(y) THEN Signum(x) < Signum(y)
    ELSE IF Signum(x) = 0 THEN FALSE
    ELSE IF x.kind = "inf" \/ y.kind = "inf"
         THEN IF x.kind = y.kind THEN FALSE
              ELSE IF x.sign = 1 THEN y.kind = "inf" ELSE x.kind = "inf"
    ELSE LET emin == Min(x.e, y.e)
             c == BigCmp(ShiftLeft(x.m, x.e - emin), ShiftLeft(y.m, y.e - emin))
         IN  IF x.sign = 1 THEN c < 0 ELSE c > 0

\* ---------------------------------------------------------- float(), int()
Unsigned(tok) ==
    IF Len(tok) > 0 /\ tok[1] \in {"+", "-"} THEN SubSeq(tok, 2, Len(tok)) ELSE tok

SignOf(tok) == IF Len(tok) > 0 /\ tok[1] = "-" THEN -1 ELSE 1

Lower(c) ==
    CASE c = "A" -> "a" [] c = "E" -> "e" [] c = "F" -> "f" [] c = "I" -> "i"
      [] c = "N" -> "n" [] c = "T" -> "t" [] c = "Y" -> "y" [] OTHER -> c

LowerSeq(s) == [i \in 1..Len(s) |-> Lower(s[i])]

\* index of the first character of s that is in S, Len(s) + 1 when there is none
FirstIn(s, S) ==
    IF \E i \in 1..Len(s) : s[i] \in S
    THEN CHOOSE i \in 1..Len(s) : s[i] \in S /\ \A j \in 1..(i - 1) : s[j] \notin S
    ELSE Len(s) + 1

\* a run of digits; Python 3 also allows single underscores between digits
IsDigitPart(s, py2) ==
    /\ Len(s) >= 1
    /\ \A i \in 1..Len(s) :
          \/ s[i] \in Digit
          \/ /\ ~py2
             /\ s[i] = "_"
             /\ i > 1 /\ i < Len(s)
             /\ s[i - 1] \in Digit /\ s[i + 1] \in Digit

OnlyDigits(s) == SelectSeq(s, LAMBDA c : c \in Digit)

\* mantissa [exponent] of a decimal float literal, in lower case and unsigned
MantissaOf(u) == SubSeq(u, 1, FirstIn(u, {"e"}) - 1)
ExponentOf(u) == SubSeq(u, FirstIn(u, {"e"}) + 1, Len(u))
IntPartOf(mant) == SubSeq(mant, 1, FirstIn(mant, {"."}) - 1)
FracPartOf(mant) == SubSeq(mant, FirstIn(mant, {"."}) + 1, Len(mant))

IsInfinity(u) ==
    u \in {<<"i", "n", "f">>, <<"i", "n", "f", "i", "n", "i", "t", "y">>}

IsNaN(u) == u = <<"n", "a", "n">>

IsDecimal(u, py2) ==
    LET mant == MantissaOf(u)
        ip == IntPartOf(mant)
        fp == FracPartOf(mant)
    IN  /\ ip # <<>> \/ fp # <<>>
        /\ ip = <<>> \/ IsDigitPart(ip, py2)
        /\ fp = <<>> \/ IsDigitPart(fp, py2)
        /\ FirstIn(u, {"e"}) <= Len(u) => IsDigitPart(Unsigned(ExponentOf(u)), py2)

\* float(tok) succeeds, for a token of ASCII characters without whitespace
IsFloat(tok, py2) ==
    LET u == LowerSeq(Unsigned(tok))
    IN  IsInfinity(u) \/ IsNaN(u) \/ IsDecimal(u, py2)

RECURSIVE DigitsVal(_, _)
DigitsVal(ds, acc) ==
    IF ds = <<>> THEN acc ELSE DigitsVal(Tail(ds), 10 * acc + DigitVal(Head(ds)))

\* the number written by the digits ds
RECURSIVE BigFromDigits(_)
BigFromDigits(ds) ==
    IF Len(ds) <= 4 THEN Trim(<<DigitsVal(ds, 0)>>)
    ELSE LET h == Len(ds) \div 2
         IN  BigAdd(MulPow10(BigFromDigits(SubSeq(ds, 1, Len(ds) - h)), h),
                    BigFromDigits(SubSeq(ds, Len(ds) - h + 1, Len(ds))))

DropZeros(ds) == SubSeq(ds, FirstIn(ds, Digit \ {"0"}), Len(ds))

\* the decimal exponent after "e"; beyond six digits every float is already
\* inf or 0, so longer exponents saturate
ExponentVal(ex) ==
    LET ds == DropZeros(OnlyDigits(Unsigned(ex)))
        v == IF Len(ds) > 6 THEN 10^6 ELSE DigitsVal(ds, 0)
    IN  SignOf(ex) * v

\* the value of float(tok) for a token with IsFloat(tok)
FloatVal(tok) ==
    LET u == LowerSeq(Unsigned(tok))
        sign == SignOf(tok)
        mant == MantissaOf(u)
        ds == OnlyDigits(IntPartOf(mant)) \o OnlyDigits(FracPartOf(mant))
        N == BigFromDigits(ds)
        k10 == ExponentVal(ExponentOf(u)) - Len(OnlyDigits(FracPartOf(mant)))
    IN  IF IsInfinity(u) THEN Inf(sign)
        ELSE IF IsNaN(u) THEN NaN
        ELSE IF N = <<>> THEN Zero(sign)
        ELSE IF k10 > 310 THEN Inf(sign)
        ELSE IF k10 + Len(ds) < -330 THEN Zero(sign)
        ELSE FromDecimal(sign, N, k10)

\* sys.int_max_str_digits: the most digits int() converts under Python 3
\* (CPython 3.11 and later, and the patched 3.7 to 3.10); Python 2 has no limit
MaxStrDigits == 4300

\* int(tok) succeeds, for a token without whitespace
IsInt(tok, py2) ==
    /\ IsDigitPart(Unsigned(tok), py2)
    /\ py2 \/ Len(OnlyDigits(Unsigned(tok))) <= MaxStrDigits

\* An int is [sign, m]: sign * m with m a big natural; 0 has sign 1.
PyInt(sign, m) == [sign |-> IF m = <<>> THEN 1 ELSE sign, m |-> m]

\* the value of int(tok) for a token with IsInt(tok)
IntVal(tok) == PyInt(SignOf(tok), BigFromDigits(OnlyDigits(Unsigned(tok))))

\* a < b for two int
IntLess(a, b) ==
    IF a.sign # b.sign THEN a.sign < b.sign
    ELSE IF a.sign = 1 THEN BigCmp(a.m, b.m) < 0
    ELSE BigCmp(a.m, b.m) > 0


\* --------------------------------------------------------------- dicts
\* A dict (OrderedDict) is a sequence of [key, val] in insertion order.
Keys(d) == [i \in 1..Len(d) |-> d[i].key]
KeySet(d) == {d[i].key : i \in 1..Len(d)}
Has(d, k) == k \in KeySet(d)
Get(d, k) == d[CHOOSE i \in 1..Len(d) : d[i].key = k].val

\* d[k] = v : replaces the value of an existing key in place, else appends
DictSet(d, k, v) ==
    IF Has(d, k)
    THEN [i \in 1..Len(d) |-> IF d[i].key = k THEN [key |-> k, val |-> v] ELSE d[i]]
    ELSE Append(d, [key |-> k, val |-> v])

\* d.pop(k) : the dict without k
RECURSIVE Without(_, _)
Without(d, k) ==
    IF d = <<>> THEN <<>>
    ELSE IF Head(d).key = k THEN Without(Tail(d), k)
         ELSE <<Head(d)>> \o Without(Tail(d), k)

\* ------------------------------------------------------------ the inputs
\* Search keys and keywords (str)
NameA == <<"a">>
NameB == <<"b">>
KeywordX == <<"x">>

\* Log files on disk: path -> lines (without their line terminator).
\* A path outside the domain cannot be opened (IOError).
\* LogA: "a x", "b 2.5E+00", "a 1.5", "a 2"
LogA ==
    << <<"a", " ", "x">>,
       <<"b", " ", "2", ".", "5", "E", "+", "0", "0">>,
       <<"a", " ", "1", ".", "5">>,
       <<"a", " ", "2">> >>

\* LogB: "0.3 a", "a 2 1", "b"
LogB ==
    << <<"0", ".", "3", " ", "a">>,
       <<"a", " ", "2", " ", "1">>,
       <<"b">> >>

\* LogC: "", "a<U+001F>1.5", "x b<form feed>2.5"
LogC ==
    << <<>>,
       <<"a", "", "1", ".", "5">>,
       <<"x", " ", "b", "\f", "2", ".", "5">> >>

Files == ("./srlLog/a.log" :> LogA) @@ ("./srlLog/b.log" :> LogB) @@ ("./srlLog/c.log" :> LogC)

LogPaths == DOMAIN Files \cup {"./srlLog/foobar"}

\* Tables of (testName, target, tolerance, col); names within a table are distinct.
ValueSpec(name, target, tolerance, col) ==
    [testName |-> name, target |-> target, tolerance |-> tolerance, col |-> col]

\* The numbers of the tables, as the floats their literals denote
F0_1 == FloatVal(<<"0", ".", "1">>)
F0_2 == FloatVal(<<"0", ".", "2">>)
F0_3 == FloatVal(<<"0", ".", "3">>)
F0_5 == FloatVal(<<"0", ".", "5">>)
F1 == FloatVal(<<"1">>)
F1_5 == FloatVal(<<"1", ".", "5">>)
F2 == FloatVal(<<"2">>)
F2_5 == FloatVal(<<"2", ".", "5">>)

\* [['a', 1.5, 0.5, 1], ['b', 2.5, 0.5, 1]], the same in the other order,
\* [['a', 2, 1, 2]] and [['a', 0.1, 0.2, 0]]
Tables ==
    { <<ValueSpec(NameA, F1_5, F0_5, 1), ValueSpec(NameB, F2_5, F0_5, 1)>>,
      <<ValueSpec(NameB, F2_5, F0_5, 1), ValueSpec(NameA, F1_5, F0_5, 1)>>,
      <<ValueSpec(NameA, F2, F1, 2)>>,
      <<ValueSpec(NameA, F0_1, F0_2, 0)>> }

ExampleNames == <<"Example 1", "Example 2", "Example 3", "Example 4">>

\* --------------------------------------------------------------- TestVals
\* None as a testVal: a value that is no float
None == [kind |-> "None", sign |-> 1, m |-> <<>>, e |-> 0]

TestVals(target, tolerance, col, testVal) ==
    [target |-> target, tolerance |-> tolerance, col |-> col, testVal |-> testVal]

\* collections.OrderedDict([(testName, TestVals(...)) for ... in listOfTests])
RECURSIVE OrderedDictOf(_, _)
OrderedDictOf(listOfTests, d) ==
    IF listOfTests = <<>> THEN d
    ELSE LET t == Head(listOfTests)
         IN  OrderedDictOf(Tail(listOfTests),
                           DictSet(d, t.testName, TestVals(t.target, t.tolerance, t.col, None)))

\* -------------------------------------------------------------- the scan
\* float(line.split()[col]) with col = -missingTests[testName]['col'];
\* ok = FALSE is the ValueError or IndexError of lines 110-112
ColumnValue(line, c, py2) ==
    LET tok == PyIndex(Split(line, py2), -c)
    IN  IF tok.ok /\ IsFloat(tok.val, py2)
        THEN [ok |-> TRUE, val |-> FloatVal(tok.val)]
        ELSE [ok |-> FALSE, val |-> None]

\* Variant: the value is recorded but the name is left in missingTests
MoveToFoundKeepPending(st, testName, testVal) ==
    [st EXCEPT !.foundTests = DictSet(st.foundTests, testName,
                                      [Get(st.missingTests, testName) EXCEPT !.testVal = testVal])]

\* Variant: the name is popped from missingTests but not stored in foundTests
MoveToFoundDropped(st, testName, testVal) ==
    [st EXCEPT !.missingTests = Without(st.missingTests, testName)]

\* foundTests[testName] = missingTests.pop(testName); foundTests[testName]['testVal'] = testVal
MoveToFound(st, testName, testVal) ==
    [st EXCEPT !.missingTests = Without(st.missingTests, testName),
               !.foundTests = DictSet(st.foundTests, testName,
                                      [Get(st.missingTests, testName) EXCEPT !.testVal = testVal])]

\* The loop over missingTests.keys() for one line.  keys is what keys()
\* returned when the loop began.  Under Python 2 keys() is a list and the loop
\* visits every key.  Under Python 3 it is a live view, and the iterator raises
\* RuntimeError at its next step once the dict has changed, unless it had
\* already reached the end.
RECURSIVE ScanKeys(_, _, _, _, _)
ScanKeys(line, keys, j, st, py2) ==
    IF j > Len(keys) THEN st
    ELSE LET testName == keys[j]
             r == ColumnValue(line, Get(st.missingTests, testName).col, py2)
         IN  IF Contains(line, testName) /\ r.ok
             THEN LET moved == MoveToFound(st, testName, r.val)
                  IN  IF ~py2 /\ j < Len(keys)
                      THEN [moved EXCEPT !.error = TRUE]
                      ELSE ScanKeys(line, keys, j + 1, moved, py2)
             ELSE ScanKeys(line, keys, j + 1, st, py2)

\* for line in fd: ...
RECURSIVE ScanLines(_, _, _, _)
ScanLines(lines, i, st, py2) ==
    IF i > Len(lines) \/ st.error THEN st
    ELSE ScanLines(lines, i + 1,
                   ScanKeys(lines[i], Keys(st.missingTests), 1, st, py2), py2)

\* the first line holding the keyword, as the phrase classes look for it
HasPhrase(lines, keyword) == \E i \in 1..Len(lines) : Contains(lines[i], keyword)

\* ------------------------------------------------------------ the classes
\* One record per generated TestCase subclass.  tests holds, per generated test
\* method, its testName; outcome its verdict once the runner has run it.
NewClass(kind, exampleName, logfile) ==
    [kind |-> kind, exampleName |-> exampleName, logfile |-> logfile,
     listOfTests |-> <<>>, missingTests |-> <<>>, foundTests |-> <<>>, passedTests |-> <<>>,
     keyword |-> <<>>, foundPhrases |-> <<>>, raisedIOError |-> FALSE,
     tests |-> <<>>, outcome |-> <<>>, stage |-> "loaded", error |-> FALSE]

\* RunTestClass.addTests: all tests start missing, one test method per key
addTests(cls, listOfTests) ==
    LET missing == OrderedDictOf(listOfTests, <<>>)
    IN  [cls EXCEPT !.listOfTests = listOfTests,
                    !.missingTests = missing,
                    !.foundTests = <<>>,
                    !.passedTests = <<>>,
                    !.tests = Keys(missing),
                    !.outcome = [k \in 1..Len(missing) |-> "notrun"]]

\* FindPhraseFactory / DFdPhraseFactory: fresh foundPhrases and raisedIOError
PhraseFactory(kind, exampleName, logfile, keyword) ==
    [NewClass(kind, exampleName, logfile) EXCEPT !.keyword = keyword,
                                                 !.tests = <<keyword>>,
                                                 !.outcome = <<"notrun">>]

\* print(fmt % args) by class i
Line(i, fmt, args) == [cls |-> i, fmt |-> fmt, args |-> args]

NextExampleName == ExampleNames[Len(suite) + 1]

\* The headings __main__ prints between the declarations, line by line:
\* print('\nBEGIN TESTING TOOLS'), print('\n\n2d_eig Example'), ...
Headers ==
    << <<"", "BEGIN TESTING TOOLS">>,
       <<"", "", "2d_eig Example">>,
       <<"", "", "3Dbox Example">>,
       <<"", "", "axi Example">>,
       <<"", "\\RunMissingLog">>,
       <<"", "\\FindPhraseMissingLog">> >>

HeadersPrinted == Cardinality({n \in 1..Len(out) : out[n].cls = 0 /\ out[n].fmt # ""})

Init ==
    /\ python2 \in BOOLEAN
    /\ suite = <<>>
    /\ phase = "declare"
    /\ cur = 1
    /\ out = <<>>
    /\ stepClass = "NekStepP"
    /\ numPass = PyInt(1, <<>>)
    /\ numTotal = PyInt(1, <<>>)
    /\ ciStage = "init"
    /\ cmdRan = FALSE
    /\ stdio = <<>>
    /\ ciStatus = "none"

\* The next print(...) of a heading in __main__; the first one precedes every
\* declaration and the last one the run of the suite
PrintHeader ==
    /\ phase = "declare"
    /\ HeadersPrinted < Len(Headers)
    /\ LET h == Headers[HeadersPrinted + 1]
       IN  out' = out \o [k \in 1..Len(h) |-> Line(0, h[k], <<>>)]
    /\ UNCHANGED <<python2, suite, phase, cur>>
    /\ UNCHANGED ciVars

\* Run(exampleName, logfile, listOfTests)
Run(exampleName, logfile, listOfTests) ==
    /\ phase = "declare"
    /\ HeadersPrinted >= 1
    /\ Len(suite) < MaxExamples
    /\ suite' = Append(suite, addTests(NewClass("Run", exampleName, logfile), listOfTests))
    /\ UNCHANGED <<python2, phase, cur, out>>
    /\ UNCHANGED ciVars

\* FindPhrase(exampleName, logfile, keyword)
FindPhrase(exampleName, logfile, keyword) ==
    /\ phase = "declare"
    /\ HeadersPrinted >= 1
    /\ Len(suite) < MaxExamples
    /\ suite' = Append(suite, PhraseFactory("FindPhrase", exampleName, logfile, keyword))
    /\ UNCHANGED <<python2, phase, cur, out>>
    /\ UNCHANGED ciVars

\* DFdPhrase(exampleName, logfile, keyword)
DFdPhrase(exampleName, logfile, keyword) ==
    /\ phase = "declare"
    /\ HeadersPrinted >= 1
    /\ Len(suite) < MaxExamples
    /\ suite' = Append(suite, PhraseFactory("DFdPhrase", exampleName, logfile, keyword))
    /\ UNCHANGED <<python2, phase, cur, out>>
    /\ UNCHANGED ciVars

\* unittest.TextTestRunner(verbosity=2).run(suite) begins
RunSuite ==
    /\ phase = "declare"
    /\ HeadersPrinted = Len(Headers)
    /\ Len(suite) >= 1
    /\ phase' = "run"
    /\ UNCHANGED <<python2, suite, cur, out>>
    /\ UNCHANGED ciVars

IsCurrent(i, kind, stage) ==
    /\ phase = "run"
    /\ i = cur
    /\ i \in 1..Len(suite)
    /\ suite[i].kind = kind
    /\ suite[i].stage = stage

\* RunTestClass.setUpClass.  An exception other than IOError leaves the method:
\* the runner then runs neither the tests of the class nor its tearDownClass.
setUpClass(i) ==
    /\ IsCurrent(i, "Run", "loaded")
    /\ LET cls == suite[i]
       IN  IF cls.logfile \in DOMAIN Files
           THEN LET st == ScanLines(Files[cls.logfile], 1, cls, python2)
                IN  /\ suite' = [suite EXCEPT ![i] =
                                   [st EXCEPT !.stage = IF st.error THEN "setup_error" ELSE "set_up"]]
                    /\ cur' = IF st.error THEN cur + 1 ELSE cur
                    /\ out' = out
           ELSE /\ suite' = [suite EXCEPT ![i].stage = "set_up"]
                /\ cur' = cur
                /\ out' = out \o
                     << Line(i, "[%s]...Sorry, I must skip this test.", <<cls.exampleName>>),
                        Line(i, "[%s]...The logfile is missing or doesn't have the correct name...",
                             <<cls.exampleName>>) >>
    /\ UNCHANGED <<python2, phase>>
    /\ UNCHANGED ciVars

\* Variant: assertLessEqual instead of assertLess
WithinToleranceInclusive(tv) ==
    LET d == FloatAbs(FloatSub(tv.testVal, tv.target))
    IN  FloatLess(d, tv.tolerance) \/ d = tv.tolerance

\* abs(testVal - target) < tolerance  (assertLess)
WithinTolerance(tv) == FloatLess(FloatAbs(FloatSub(tv.testVal, tv.target)), tv.tolerance)

\* The generated testFunc for tests[k]
testFunc(i, k) ==
    /\ IsCurrent(i, "Run", "set_up")
    /\ k \in 1..Len(suite[i].tests)
    /\ suite[i].outcome[k] = "notrun"
    /\ LET cls == suite[i]
           testName == cls.tests[k]
       IN  IF ~Has(cls.foundTests, testName)
           THEN /\ suite' = [suite EXCEPT ![i].outcome[k] = "FAIL assertIn"]
                /\ out' = out
           ELSE LET tv == Get(cls.foundTests, testName)
                    printed == Append(out, Line(i, "[%s] %s : %s",
                                                <<cls.exampleName, testName, tv.testVal>>))
                IN  IF WithinTolerance(tv)
                    THEN /\ suite' = [suite EXCEPT ![i].outcome[k] = "ok",
                                                   ![i].passedTests =
                                                       DictSet(cls.passedTests, testName, tv)]
                         /\ out' = printed
                    ELSE /\ suite' = [suite EXCEPT ![i].outcome[k] = "FAIL assertLess"]
                         /\ out' = printed
    /\ UNCHANGED <<python2, phase, cur>>
    /\ UNCHANGED ciVars

AllRun(cls) == \A k \in 1..Len(cls.tests) : cls.outcome[k] # "notrun"

\* Variant: the result only looks at the names that were never found
ResultIsFMissingOnly(cls) == Len(cls.missingTests) > 0

\* RunTestClass.tearDownClass, after the last test of the class
ResultIsF(cls) ==
    Len(cls.passedTests) < Len(cls.foundTests) \/ Len(cls.missingTests) > 0

tearDownClass(i) ==
    /\ IsCurrent(i, "Run", "set_up")
    /\ AllRun(suite[i])
    /\ LET cls == suite[i]
           notFound == IF Len(cls.missingTests) > 0
                       THEN << Line(i, "[%s]...I couldn't find all the requested value in the log file...",
                                    <<cls.exampleName>>),
                               Line(i, "[%s]...%s were not found...",
                                    <<cls.exampleName, Keys(cls.missingTests)>>) >>
                       ELSE <<>>
           result == IF ResultIsF(cls)
                     THEN Line(i, "%s : F ", <<cls.exampleName>>)
                     ELSE Line(i, "%s : .", <<cls.exampleName>>)
       IN  out' = out \o notFound \o <<result>>
    /\ suite' = [suite EXCEPT ![i].stage = "torn_down"]
    /\ cur' = cur + 1
    /\ UNCHANGED <<python2, phase>>
    /\ UNCHANGED ciVars

\* FindPhraseClass.setUpClass / DFdPhraseClass.setUpClass (the same code)
PhraseSetUp(cls) ==
    IF cls.logfile \in DOMAIN Files
    THEN IF HasPhrase(Files[cls.logfile], cls.keyword)
         THEN [cls EXCEPT !.foundPhrases = Append(cls.foundPhrases, cls.keyword), !.stage = "set_up"]
         ELSE [cls EXCEPT !.stage = "set_up"]
    ELSE [cls EXCEPT !.raisedIOError = TRUE, !.stage = "set_up"]

InSeq(x, seq) == \E n \in 1..Len(seq) : seq[n] = x

FindPhrase_setUpClass(i) ==
    /\ IsCurrent(i, "FindPhrase", "loaded")
    /\ suite' = [suite EXCEPT ![i] = PhraseSetUp(suite[i])]
    /\ UNCHANGED <<python2, phase, cur, out>>
    /\ UNCHANGED ciVars

\* FindPhraseClass.test_findPhrase: assertIn(keyword, foundPhrases)
test_findPhrase(i) ==
    /\ IsCurrent(i, "FindPhrase", "set_up")
    /\ suite[i].outcome[1] = "notrun"
    /\ suite' = [suite EXCEPT ![i].outcome[1] =
                    IF InSeq(suite[i].keyword, suite[i].foundPhrases) THEN "ok" ELSE "FAIL assertIn"]
    /\ UNCHANGED <<python2, phase, cur, out>>
    /\ UNCHANGED ciVars

MissingLogLines(i, cls) ==
    << Line(i, "[%s]...Sorry, I must skip this test.", <<cls.exampleName>>),
       Line(i, "[%s]...The logfile is missing or doesn't have the correct name...", <<cls.exampleName>>),
       Line(i, "%s : F ", <<cls.exampleName>>) >>

\* FindPhraseClass.tearDownClass
FindPhrase_tearDownClass(i) ==
    /\ IsCurrent(i, "FindPhrase", "set_up")
    /\ AllRun(suite[i])
    /\ LET cls == suite[i]
       IN  out' = out \o
             (IF cls.raisedIOError THEN MissingLogLines(i, cls)
              ELSE <<Line(i, "[%s] : %s", <<cls.exampleName, cls.keyword>>)>> \o
                   (IF Len(cls.foundPhrases) = 0
                    THEN << Line(i, "[%s]...I couldn't find '%s' in the logfile...",
                                 <<cls.exampleName, cls.keyword>>),
                            Line(i, "%s : F ", <<cls.exampleName>>) >>
                    ELSE << Line(i, "%s : .", <<cls.exampleName>>) >>))
    /\ suite' = [suite EXCEPT ![i].stage = "torn_down"]
    /\ cur' = cur + 1
    /\ UNCHANGED <<python2, phase>>
    /\ UNCHANGED ciVars

DFdPhrase_setUpClass(i) ==
    /\ IsCurrent(i, "DFdPhrase", "loaded")
    /\ suite' = [suite EXCEPT ![i] = PhraseSetUp(suite[i])]
    /\ UNCHANGED <<python2, phase, cur, out>>
    /\ UNCHANGED ciVars

\* DFdPhraseClass.test_DFdPhrase: assertNotIn(keyword, foundPhrases)
test_DFdPhrase(i) ==
    /\ IsCurrent(i, "DFdPhrase", "set_up")
    /\ suite[i].outcome[1] = "notrun"
    /\ suite' = [suite EXCEPT ![i].outcome[1] =
                    IF InSeq(suite[i].keyword, suite[i].foundPhrases) THEN "FAIL assertNotIn" ELSE "ok"]
    /\ UNCHANGED <<python2, phase, cur, out>>
    /\ UNCHANGED ciVars

\* DFdPhraseClass.tearDownClass
DFdPhrase_tearDownClass(i) ==
    /\ IsCurrent(i, "DFdPhrase", "set_up")
    /\ AllRun(suite[i])
    /\ LET cls == suite[i]
       IN  out' = out \o
             (IF cls.raisedIOError THEN MissingLogLines(i, cls)
              ELSE IF Len(cls.foundPhrases) > 0
                   THEN << Line(i, "[%s] : %s", <<cls.exampleName, cls.keyword>>),
                           Line(i, "%s : F", <<cls.exampleName>>) >>
                   ELSE << Line(i, "%s : . ", <<cls.exampleName>>) >>)
    /\ suite' = [suite EXCEPT ![i].stage = "torn_down"]
    /\ cur' = cur + 1
    /\ UNCHANGED <<python2, phase>>
    /\ UNCHANGED ciVars

\* run(suite) returns and __main__ ends: nothing more is printed to stdout
\* (the runner's own report goes to stderr)
EndOfMain ==
    /\ phase = "run"
    /\ cur > Len(suite)
    /\ phase' = "done"
    /\ UNCHANGED <<python2, suite, cur, out>>
    /\ UNCHANGED ciVars

Next ==
    \/ PrintHeader
    \/ \E logfile \in LogPaths, listOfTests \in Tables : Run(NextExampleName, logfile, listOfTests)
    \/ \E logfile \in LogPaths : FindPhrase(NextExampleName, logfile, KeywordX)
    \/ \E logfile \in LogPaths : DFdPhrase(NextExampleName, logfile, KeywordX)
    \/ RunSuite
    \/ \E i \in 1..MaxExamples + 1 : setUpClass(i)
    \/ \E i \in 1..MaxExamples + 1, k \in 1..2 : testFunc(i, k)
    \/ \E i \in 1..MaxExamples + 1 : tearDownClass(i)
    \/ \E i \in 1..MaxExamples + 1 : FindPhrase_setUpClass(i)
    \/ \E i \in 1..MaxExamples + 1 : test_findPhrase(i)
    \/ \E i \in 1..MaxExamples + 1 : FindPhrase_tearDownClass(i)
    \/ \E i \in 1..MaxExamples + 1 : DFdPhrase_setUpClass(i)
    \/ \E i \in 1..MaxExamples + 1 : test_DFdPhrase(i)
    \/ \E i \in 1..MaxExamples + 1 : DFdPhrase_tearDownClass(i)
    \/ EndOfMain

Spec == Init /\ [][Next]_vars

\* ------------------------------------------------------- the buildbot step
\* Lines the harness command can write to stdout
TestSummary == <<"T", "e", "s", "t", " ", "S", "u", "m", "m", "a", "r", "y">>

StdoutLines ==
    { TestSummary \o <<" ", ":", " ", "1", "/", "2">>,
      TestSummary \o <<" ", ":", " ", "2", "/", "2">>,
      TestSummary \o <<" ", ":", " ", "0", "/", "1">>,
      TestSummary \o <<":", " ", "1", "/", "2">>,
      TestSummary \o <<" ", ":", " ", "3">>,
      TestSummary \o <<" ", ":", " ", "x", "/", "2">>,
      TestSummary \o <<" ", ":", " ", "1", "_", "0", "/", "2", "0">>,
      <<"E", "x", "a", "m", "p", "l", "e", " ", "1", " ", ":", " ", "F", " ">> }

\* NekStepP.__init__ / NekStepS.__init__: the counters start at 0
InitCI ==
    /\ python2 \in BOOLEAN
    /\ suite = <<>>
    /\ phase = "declare"
    /\ cur = 1
    /\ out = <<>>
    /\ stepClass \in {"NekStepP", "NekStepS"}
    /\ numPass = PyInt(1, <<>>)
    /\ numTotal = PyInt(1, <<>>)
    /\ ciStage = "init"
    /\ cmdRan = FALSE
    /\ stdio = <<>>
    /\ ciStatus = "none"

\* buildbot starts the shell command; ran = FALSE when the command cannot be run
StartCommand(ran) ==
    /\ ciStage = "init"
    /\ ciStage' = "running"
    /\ cmdRan' = ran
    /\ UNCHANGED <<stepClass, numPass, numTotal, stdio, ciStatus>>
    /\ UNCHANGED harnessVars

\* NekTestCounter.outLineReceived.  The two assignments run in order; an
\* IndexError or ValueError in either leaves the method at that point.
outLineReceived(line) ==
    /\ ciStage = "running"
    /\ cmdRan
    /\ Len(stdio) < MaxStdioLines
    /\ stdio' = Append(stdio, line)
    /\ IF Contains(line, TestSummary)
       THEN LET tok == PyIndex(Split(line, python2), 3)
                parts == SplitOn(tok.val, "/")
                first == PyIndex(parts, 0)
                second == PyIndex(parts, 1)
            IN  IF ~tok.ok \/ ~IsInt(first.val, python2)
                THEN /\ ciStage' = "exception"
                     /\ UNCHANGED <<numPass, numTotal>>
                ELSE IF ~second.ok \/ ~IsInt(second.val, python2)
                THEN /\ ciStage' = "exception"
                     /\ numPass' = IntVal(first.val)
                     /\ UNCHANGED numTotal
                ELSE /\ numPass' = IntVal(first.val)
                     /\ numTotal' = IntVal(second.val)
                     /\ UNCHANGED ciStage
       ELSE UNCHANGED <<numPass, numTotal, ciStage>>
    /\ UNCHANGED <<stepClass, cmdRan, ciStatus>>
    /\ UNCHANGED harnessVars

\* NekStepP.evaluateCommand and NekStepS.evaluateCommand (the same code)
StepResult(pass, total) == IF IntLess(pass, total) THEN "FAILURE" ELSE "SUCCESS"

evaluateCommand ==
    /\ ciStage = "running"
    /\ ciStage' = "finished"
    /\ ciStatus' = StepResult(numPass, numTotal)
    /\ UNCHANGED <<stepClass, numPass, numTotal, cmdRan, stdio>>
    /\ UNCHANGED harnessVars

NextCI ==
    \/ \E ran \in BOOLEAN : StartCommand(ran)
    \/ \E line \in StdoutLines : outLineReceived(line)
    \/ evaluateCommand

SpecCI == InitCI /\ [][NextCI]_vars

\* ------------------------------------------------------------ the claims
RunClasses == {i \in 1..Len(suite) : suite[i].kind = "Run"}
DeclaredNames(cls) == {cls.listOfTests[k].testName : k \in 1..Len(cls.listOfTests)}
Readable(cls) == cls.logfile \in DOMAIN Files
LinesOf(i, fmts) == {n \in 1..Len(out) : out[n].cls = i /\ out[n].fmt \in fmts}

\* a line on which the code can record a value for (name, c)
Qualifies(line, name, c, py2) == Contains(line, name) /\ ColumnValue(line, c, py2).ok

FirstQualifying(lines, name, c, py2) ==
    CHOOSE l \in 1..Len(lines) :
        /\ Qualifies(lines[l], name, c, py2)
        /\ \A m \in 1..(l - 1) : ~Qualifies(lines[m], name, c, py2)

TableNames == UNION {{t[k].testName : k \in 1..Len(t)} : t \in Tables}
TableCols == UNION {{t[k].col : k \in 1..Len(t)} : t \in Tables}

\* For every interpreter, log, name and column of the inputs: whether some line
\* of the log qualifies, and the float of the designated column of the first
\* such line in file order
FirstMatch ==
    [py2 \in BOOLEAN, p \in DOMAIN Files, name \in TableNames, c \in TableCols |->
        LET lines == Files[p]
        IN  IF \E l \in 1..Len(lines) : Qualifies(lines[l], name, c, py2)
            THEN [found |-> TRUE,
                  val |-> ColumnValue(lines[FirstQualifying(lines, name, c, py2)], c, py2).val]
            ELSE [found |-> FALSE, val |-> None]]

\* C1: after setUpClass has scanned a readable log, every name in foundTests
\* carries the float of the designated column of the first line, in file order,
\* that contains the name and whose designated column parses as a float; a
\* later line that also contains the name does not replace it.
C1_FirstMatchWins ==
    \A i \in RunClasses :
        LET cls == suite[i]
        IN  Readable(cls) =>
              \A n \in 1..Len(cls.foundTests) :
                 LET e == cls.foundTests[n]
                     first == FirstMatch[python2, cls.logfile, e.key, e.val.col]
                 IN  first.found /\ e.val.testVal = first.val

\* a found name has a later qualifying line with another value
C1_Witness ==
    \E i \in RunClasses :
        LET cls == suite[i]
        IN  /\ Readable(cls)
            /\ \E n \in 1..Len(cls.foundTests) :
                 LET e == cls.foundTests[n]
                     lines == Files[cls.logfile]
                 IN  \E l \in 1..Len(lines) :
                        /\ l > FirstQualifying(lines, e.key, e.val.col, python2)
                        /\ Qualifies(lines[l], e.key, e.val.col, python2)
                        /\ ColumnValue(lines[l], e.val.col, python2).val # e.val.testVal

C2_Inv ==
    \A i \in RunClasses :
        LET cls == suite[i]
        IN  /\ KeySet(cls.missingTests) \cap KeySet(cls.foundTests) = {}
            /\ KeySet(cls.missingTests) \cup KeySet(cls.foundTests) = DeclaredNames(cls)
            /\ Cardinality(KeySet(cls.missingTests)) = Len(cls.missingTests)
            /\ Cardinality(KeySet(cls.foundTests)) = Len(cls.foundTests)

C2_Step ==
    \A i \in 1..Len(suite) :
        /\ KeySet(suite[i].foundTests) \subseteq KeySet(suite'[i].foundTests)
        /\ KeySet(suite'[i].missingTests) \subseteq KeySet(suite[i].missingTests)

\* C2: from addTests on, whether the log is readable or not, every declared name
\* is a key of exactly one of missingTests and foundTests (disjoint, together the
\* declared names, no key twice); a name only ever moves from missingTests to
\* foundTests, never back.
C2_Partition == [][C2_Inv' /\ C2_Step]_vars

\* after a completed setUpClass one class holds a found and a pending name
C2_Witness ==
    \E i \in RunClasses :
        /\ suite[i].stage \in {"set_up", "torn_down"}
        /\ Len(suite[i].foundTests) > 0
        /\ Len(suite[i].missingTests) > 0

\* C4: a generated check that has run passed exactly when its name is in
\* foundTests and |testVal - target| < tolerance; it failed on assertIn exactly
\* when the name is still pending and on assertLess exactly when
\* |testVal - target| >= tolerance; passedTests holds exactly the names whose
\* check passed, and is a subset of foundTests.  The difference, its absolute
\* value and the comparison are those of floats.
C4_CheckVerdict ==
    \A i \in RunClasses :
        LET cls == suite[i]
            InTolerance(name) ==
                IF ~Has(cls.foundTests, name) THEN FALSE
                ELSE LET tv == Get(cls.foundTests, name)
                         diff == FloatSub(tv.testVal, tv.target)
                     IN  FloatLess([diff EXCEPT !.sign = 1], tv.tolerance)
        IN  /\ \A k \in 1..Len(cls.tests) :
                 cls.outcome[k] # "notrun" =>
                    /\ cls.outcome[k] = "ok" <=> InTolerance(cls.tests[k])
                    /\ cls.outcome[k] = "FAIL assertIn" <=> ~Has(cls.foundTests, cls.tests[k])
                    /\ cls.outcome[k] = "FAIL assertLess" <=>
                          (Has(cls.foundTests, cls.tests[k]) /\ ~InTolerance(cls.tests[k]))
            /\ KeySet(cls.passedTests) = {cls.tests[k] : k \in {m \in 1..Len(cls.tests) : cls.outcome[m] = "ok"}}
            /\ KeySet(cls.passedTests) \subseteq KeySet(cls.foundTests)

\* all three verdicts have been given: a pass of 0.3 against 0.1 +- 0.2, which
\* the rounding of the three floats decides, a name never found, and a failure
\* on the tolerance boundary
C4_Witness ==
    /\ \E i \in RunClasses, k \in 1..2 :
          /\ k <= Len(suite[i].tests)
          /\ suite[i].outcome[k] = "ok"
          /\ LET tv == Get(suite[i].foundTests, suite[i].tests[k])
             IN  tv.testVal = F0_3 /\ tv.target = F0_1 /\ tv.tolerance = F0_2
    /\ \E i \in RunClasses, k \in 1..2 :
          k <= Len(suite[i].tests) /\ suite[i].outcome[k] = "FAIL assertIn"
    /\ \E i \in RunClasses, k \in 1..2 :
          /\ k <= Len(suite[i].tests)
          /\ suite[i].outcome[k] = "FAIL assertLess"
          /\ LET tv == Get(suite[i].foundTests, suite[i].tests[k])
             IN  FloatAbs(FloatSub(tv.testVal, tv.target)) = tv.tolerance

\* C6: once tearDownClass of a numeric example has run, it has printed
\* "<exampleName> : ." exactly when every declared name was found and its
\* check passed, and "<exampleName> : F " otherwise; when some names were never
\* found it has also printed the list of exactly those names, and no such list
\* otherwise.
C6_ResultLine ==
    \A i \in RunClasses :
        LET cls == suite[i]
            allPassed == \A name \in DeclaredNames(cls) :
                            /\ Has(cls.foundTests, name)
                            /\ \E k \in 1..Len(cls.tests) :
                                  cls.tests[k] = name /\ cls.outcome[k] = "ok"
            neverFound == DeclaredNames(cls) \ KeySet(cls.foundTests)
            lists == LinesOf(i, {"[%s]...%s were not found..."})
        IN  cls.stage = "torn_down" =>
              /\ Cardinality(LinesOf(i, {"%s : ."})) = (IF allPassed THEN 1 ELSE 0)
              /\ Cardinality(LinesOf(i, {"%s : F "})) = (IF allPassed THEN 0 ELSE 1)
              /\ \A n \in LinesOf(i, {"%s : .", "%s : F "}) : out[n].args = <<cls.exampleName>>
              /\ Cardinality(lists) = (IF neverFound = {} THEN 0 ELSE 1)
              /\ \A n \in lists :
                    {out[n].args[2][m] : m \in 1..Len(out[n].args[2])} = neverFound

\* one example ended with ".", another with "F " and a list of names never
\* found although one of its checks passed
C6_Witness ==
    /\ \E i \in RunClasses :
          suite[i].stage = "torn_down" /\ LinesOf(i, {"%s : ."}) # {}
    /\ \E i \in RunClasses :
          /\ suite[i].stage = "torn_down"
          /\ LinesOf(i, {"%s : F "}) # {}
          /\ LinesOf(i, {"[%s]...%s were not found..."}) # {}
          /\ Len(suite[i].passedTests) > 0

\* the c-th whitespace-separated token counted from the end of the line,
\* 1-based: there is none for c = 0 or c beyond the number of tokens
HasFloatFromEnd(line, c) ==
    LET toks == Split(line, python2)
    IN  c \in 1..Len(toks) /\ IsFloat(toks[Len(toks) - c + 1], python2)

\* C3: for every declared column c >= 0 the scan reads the c-th token from the
\* end of a matching line (1-based); without such a token, or when it is no
\* float, the name stays pending and may be found on a later line.  For a scan
\* that ran to the end of a readable log: a declared name is found exactly when
\* some line contains it and has a float as its c-th token from the end.
C3_ColumnFromEnd ==
    \A i \in RunClasses :
        LET cls == suite[i]
        IN  (Readable(cls) /\ cls.stage \in {"set_up", "torn_down"}) =>
              \A k \in 1..Len(cls.listOfTests) :
                 LET t == cls.listOfTests[k]
                     lines == Files[cls.logfile]
                 IN  Has(cls.foundTests, t.testName) <=>
                        \E l \in 1..Len(lines) :
                           Contains(lines[l], t.testName) /\ HasFloatFromEnd(lines[l], t.col)

MissingLogFmt == "[%s]...The logfile is missing or doesn't have the correct name..."

\* C5: for an example built by Run whose log cannot be opened, every declared
\* name stays pending, every numeric check is skipped (not failed), and the
\* output says that the log file is missing or misnamed.
C5_UnreadableSkipped ==
    \A i \in RunClasses :
        LET cls == suite[i]
        IN  (~Readable(cls) /\ cls.stage = "torn_down") =>
              /\ KeySet(cls.missingTests) = DeclaredNames(cls)
              /\ cls.foundTests = <<>>
              /\ LinesOf(i, {MissingLogFmt}) # {}
              /\ \A k \in 1..Len(cls.tests) : cls.outcome[k] = "skipped"

\* C7: a DFdPhrase check over a readable log that contains the phrase fails,
\* over a readable log without it passes, over an unreadable log is skipped
\* with the missing-log message; the result line agrees with the verdict
\* ("." for a pass, "F" otherwise, no "." for a check that did not pass).
C7_DFdPhraseVerdict ==
    \A i \in 1..Len(suite) :
        LET cls == suite[i]
            dot == LinesOf(i, {"%s : . ", "%s : ."}) # {}
            eff == LinesOf(i, {"%s : F", "%s : F "}) # {}
        IN  (cls.kind = "DFdPhrase" /\ cls.stage = "torn_down") =>
              IF ~Readable(cls)
              THEN cls.outcome[1] = "skipped" /\ LinesOf(i, {MissingLogFmt}) # {} /\ ~dot
              ELSE IF HasPhrase(Files[cls.logfile], cls.keyword)
                   THEN cls.outcome[1] = "FAIL assertNotIn" /\ eff /\ ~dot
                   ELSE cls.outcome[1] = "ok" /\ dot /\ ~eff

ResultFmts == {"%s : .", "%s : . ", "%s : F", "%s : F "}

\* examples whose every check ran and passed
PassedExamples ==
    {i \in 1..Len(suite) :
        /\ suite[i].stage = "torn_down"
        /\ \A k \in 1..Len(suite[i].tests) : suite[i].outcome[k] = "ok"
        /\ suite[i].missingTests = <<>>}

\* C8: when a run over N declared examples has ended, stdout holds exactly one
\* line "Test Summary: P/T" with T = N and P the number of examples whose every
\* spec was found and passed.
C8_SummaryLine ==
    phase = "done" =>
        \E n \in 1..Len(out) :
            /\ out[n].fmt = "Test Summary: %s/%s"
            /\ out[n].args = <<Cardinality(PassedExamples), Len(suite)>>
            /\ \A m \in 1..Len(out) : out[m].fmt = "Test Summary: %s/%s" => m = n

\* C9: whatever happened to earlier examples, when the run has ended every
\* declared example has printed exactly one result line.
C9_EveryExampleReported ==
    phase = "done" =>
        \A i \in 1..Len(suite) : Cardinality(LinesOf(i, ResultFmts)) = 1

\* C10: the step ends SUCCESS when all tests passed (numPass = numTotal),
\* WARNINGS when some failed (numPass < numTotal), and FAILURE only when the
\* command could not be run.
C10_StepStatus ==
    ciStage = "finished" =>
        ciStatus = (IF ~cmdRan THEN "FAILURE"
                    ELSE IF IntLess(numPass, numTotal) THEN "WARNINGS"
                    ELSE "SUCCESS")

====
